---- MODULE Spec2Model ----
(***************************************************************************)
(* A model of express-yt-dlp (src/index.js): the GET / download handler,   *)
(* the eviction sweep deleteOldFiles and the dynamic-DNS heartbeat         *)
(* updateIP.  src/index.js holds two builds of the server: lines 1-261     *)
(* (one url per request) and lines 262-534 (several urls per request).     *)
(* The two builds share the sweep and the heartbeat verbatim; they differ  *)
(* in the request handler.                                                 *)
(***************************************************************************)
EXTENDS Integers, Sequences, FiniteSets, TLC

(* ---------------------------------------------------------------- bounds *)

\* Most consecutive publish failures followed (caps failCount).
MaxFail == 8

\* Most url parameters of a request.
MaxUrls == 2

\* Most lines the fetch subprocess of a request writes to standard output.
MaxPaths == 3

\* Most steps of the clock.
MaxTicks == 3

\* Largest failCount calculateBackoff is applied to on its own.
MaxBackoffCount == 12

(* ------------------------------------------------------------- constants *)

\* updateIP's default minDelayMilliseconds / calculateBackoff's default min.
minDelayMilliseconds == 5000

\* updateIP's default maxDelayMilliseconds / calculateBackoff's default max.
maxDelayMilliseconds == 60000

\* previousIP = null: the default of updateIP's first parameter.
null == "null"

\* deleteOldFiles' default retention threshold `milliseconds`.
milliseconds == 86400000

\* The delay of setTimeout(deleteOldFiles, 5000).
sweepDelayMilliseconds == 5000

\* One step of the clock: half the retention threshold, so that ages
\* below, equal to and above the threshold all occur.
TickMs == milliseconds \div 2

\* The two builds of the server in src/index.js (lines 1-261 and lines
\* 262-534), and the build the specification describes, which puts a size
\* estimate and an admission check in front of the fetch.
Builds == {"single", "multi", "gated"}

\* Object.keys(formats)
VALID_FORMATS == {"audio", "video"}

\* DEFAULT_OPTIONS.format
DEFAULT_FORMAT == "audio"

\* The format parameter is not given (qs.get('format') is null).
Absent == "absent"

\* The values of the format parameter tried: absent, the two valid ones,
\* the empty string and another string.
FormatInputs == {Absent, "audio", "video", "", "flac"}

\* The maximum projected request size, 2 * 10^10 bytes, in units of 10^6
\* bytes.
MaxRequestSize == 20000

\* The projections tried: below, at and above the maximum.
Projections == {MaxRequestSize - 1, MaxRequestSize, MaxRequestSize + 1}

\* The files the fetch subprocess may produce.  A path is a sequence of
\* characters; a file name is abbreviated to one character.
Files == {<<"a">>, <<"b">>}

\* No path (undefined).
NoPath == <<>>

\* The requests followed.
Reqs == {"r1"}

\* The characters String.prototype.trim removes.
Whitespace == {"\n", " "}

\* The addresses the probe endpoint may answer with.
IPs == {"ip1", "ip2"}

VARIABLES
    calc,        \* a call of calculateBackoff: its arguments and results
    build,       \* which build of the server runs
    clock,       \* Date.now(), in ms since the process started
    disk,        \* the output directory: a set of [path, birthtimeMs]
    unlinks,     \* the fs.unlink calls in flight
    unlinkLog,   \* the unlink calls that failed (and were logged)
    req,         \* per request: the state of its handler
    sweeps,      \* the deleteOldFiles invocations that are running
    sweepTimers, \* the pending setTimeout(deleteOldFiles, 5000) timers
    sweepDone,   \* what the deleteOldFiles invocation that finished last did
    process,     \* "running" | "exited": the node process
    hbCycles,    \* the updateIP invocations that are running, in start order
    hbTimers,    \* the pending setTimeout callbacks that will call updateIP
    hbDone       \* what the updateIP invocation that finished last did

vars == <<calc, build, clock, disk, unlinks, unlinkLog, req, sweeps, sweepTimers,
          sweepDone, process, hbCycles, hbTimers, hbDone>>

fsVars == <<disk, unlinks, unlinkLog>>

sweepVars == <<sweeps, sweepTimers, sweepDone>>

hbVars == <<hbCycles, hbTimers, hbDone>>

(* --------------------------------------------------------------- helpers *)

Max(a, b) == IF a >= b THEN a ELSE b

Min(a, b) == IF a <= b THEN a ELSE b

\* The sequence s without its i-th element.
RemoveAt(s, i) == [j \in 1..(Len(s) - 1) |-> IF j < i THEN s[j] ELSE s[j + 1]]

\* What an unhandled promise rejection does to the process: node >= 15 ends
\* it, older versions only warn.
UnhandledRejection == {"running", "exited"}

(* ----------------------------------------------------------- file system *)

OnDisk(p) == \E e \in disk : e.path = p

\* stats.birthtimeMs of the file at p.
BirthtimeMs(p) == (CHOOSE e \in disk : e.path = p).birthtimeMs

\* The directory after a subprocess has written the file p at time t: a
\* new file; a file that exists is either left as it is or replaced.
Written(p, t, keep) ==
    IF OnDisk(p) /\ keep
    THEN disk
    ELSE {e \in disk : e.path # p} \cup {[path |-> p, birthtimeMs |-> t]}

\* deleteFiles that gives up after its first path.
deleteFiles_FirstOnly(paths, by) ==
    {[path |-> paths[k], by |-> by, k |-> k] : k \in DOMAIN paths \cap {1}}

\* deleteFiles(paths): one fs.unlink call per element of paths.  unlink
\* returns undefined, so Promise.all(promises) is already resolved: the
\* caller goes on before any of the calls has completed.
deleteFiles(paths, by) ==
    {[path |-> paths[k], by |-> by, k |-> k] : k \in DOMAIN paths}

\* An fs.unlink call completes.  It removes the file, or it fails (the
\* file is not there, or the removal is refused) and the callback logs it.
\* A pass of the sweep that has listed the file and not yet got its stat
\* notes, in `gone`, that a request's unlink removed it.
UnlinkDone(u, ok) ==
    /\ process = "running"
    /\ u \in unlinks
    /\ ok => OnDisk(u.path)
    /\ unlinks' = unlinks \ {u}
    /\ disk' = IF ok THEN {e \in disk : e.path # u.path} ELSE disk
    /\ unlinkLog' = IF ok THEN unlinkLog
                    ELSE unlinkLog \cup {[path |-> u.path, by |-> u.by]}
    /\ sweeps' = [i \in DOMAIN sweeps |->
                     IF ok /\ u.by # "sweep" /\ u.path \in sweeps[i].waiting
                     THEN [sweeps[i] EXCEPT !.gone = @ \cup {u.path}]
                     ELSE sweeps[i]]
    /\ UNCHANGED <<calc, build, clock, req, sweepTimers, sweepDone, process,
                   hbVars>>

\* Time passes.
Tick ==
    /\ process = "running"
    /\ clock < MaxTicks * TickMs
    /\ clock' = clock + TickMs
    /\ UNCHANGED <<calc, build, fsVars, req, sweepVars, process, hbVars>>

(* --------------------------------------------------------------- request *)

\* A request that has not arrived yet.
IdleReq ==
    [pc |-> "idle", urls |-> 0, format |-> Absent, projected |-> -1,
     written |-> 0, lines |-> <<>>, pipe |-> <<>>, paths |-> <<>>,
     archive |-> NoPath, deliverable |-> NoPath, cbPaths |-> <<>>,
     status |-> 0, sent |-> FALSE, fetchSpawned |-> 0, zipSpawned |-> 0,
     fetchExit |-> -1, zipExit |-> -1, transmitted |-> "no", deleted |-> {}]

RECURSIVE TrimStart(_)
TrimStart(s) ==
    IF s # <<>> /\ Head(s) \in Whitespace THEN TrimStart(Tail(s)) ELSE s

RECURSIVE TrimEnd(_)
TrimEnd(s) ==
    IF s # <<>> /\ s[Len(s)] \in Whitespace
    THEN TrimEnd(SubSeq(s, 1, Len(s) - 1))
    ELSE s

\* String.prototype.trim
Trim(s) == TrimEnd(TrimStart(s))

\* The elements of the sequence s.
Range(s) == {s[k] : k \in DOMAIN s}

\* qs.get('format') ?? DEFAULT_OPTIONS.format
EffectiveFormat(fmt) == IF fmt = Absent THEN DEFAULT_FORMAT ELSE fmt

\* if (format && !VALID_FORMATS.includes(format)): the empty string is
\* falsy and passes.
FormatRejected(format) == format # "" /\ format \notin VALID_FORMATS

\* The status of the catch around `await download(...)`: "Invalid URL"
\* (400) at line 128, "Download failed" (500) at line 401.
DownloadFailedStatus(b) == IF b = "single" THEN 400 ELSE 500

\* The statuses with which express may answer when the handler's promise
\* rejects with undefined (zip's reject()) and asyncHandler hands that to
\* next: 404 if next(undefined) falls through to the end of the routes,
\* 500 if it is treated as an error.
RejectedUndefinedStatus == {404, 500}

\* The paths handed to the download callback: createDownloadCallback(
\* [outputPath, ...filepaths]) at line 409; at line 132 the callback
\* closes over filepaths alone.
CallbackPaths(b, outputPath, filepaths) ==
    IF b = "single" THEN filepaths ELSE <<outputPath>> \o filepaths

\* uuidv4() + '.zip' of the request r.
ArchivePath(r) == <<r, ".zip">>

\* The handler answers q with the status and ends.
Respond(q, status) == [q EXCEPT !.pc = "done", !.status = status]

\* download(hrefs, {format}) is called.  formats[''] is undefined: spawn
\* is then given an undefined argument, and either throws inside the
\* promise executor (the promise rejects) or starts yt-dlp with it.
StartFetch(q, threw) ==
    IF threw
    THEN Respond(q, DownloadFailedStatus(build))
    ELSE [q EXCEPT !.pc = "fetching", !.fetchSpawned = @ + 1]

SpawnMayThrow(format) == IF format = "" THEN BOOLEAN ELSE {FALSE}

\* GET / arrives with nUrls url parameters, the format parameter fmt, and
\* urls that all parse (valid) or not: the handler up to its first await.
Request(r, nUrls, fmt, valid, threw) ==
    /\ process = "running"
    /\ req[r].pc = "idle"
    /\ LET format == EffectiveFormat(fmt)
           q == [req[r] EXCEPT !.urls = nUrls, !.format = format]
       IN  /\ threw \in SpawnMayThrow(format)
           /\ req' = [req EXCEPT ![r] =
                 IF nUrls = 0 THEN Respond(q, 400)
                 ELSE IF FormatRejected(format) THEN Respond(q, 400)
                 ELSE IF ~valid THEN Respond(q, 400)
                 ELSE IF build = "gated" THEN [q EXCEPT !.pc = "estimating"]
                 ELSE StartFetch(q, threw)]
    /\ UNCHANGED <<calc, build, clock, fsVars, sweepVars, process, hbVars>>

\* The admission check with the comparison off by one.
QuotaExceeded_OffByOne(projected) == projected > MaxRequestSize + 1

\* Whether a projection is over the budget.
QuotaExceeded(projected) == projected > MaxRequestSize

\* The size estimate of a request arrives: the probe failed (500), or it
\* gives a projection, which is refused (403) or admitted.
EstimateDone(r, ok, projected, threw) ==
    /\ process = "running"
    /\ req[r].pc = "estimating"
    /\ threw \in SpawnMayThrow(req[r].format)
    /\ req' = [req EXCEPT ![r] =
          IF ~ok THEN Respond(@, 500)
          ELSE LET q == [@ EXCEPT !.projected = projected]
               IN  IF QuotaExceeded(projected) THEN Respond(q, 403)
                   ELSE StartFetch(q, threw)]
    /\ UNCHANGED <<calc, build, clock, fsVars, sweepVars, process, hbVars>>

\* yt-dlp finishes the file f and `--exec echo` writes its path, one
\* line, to standard output.
FetchWrite(r, f, keep) ==
    /\ process = "running"
    /\ req[r].pc = "fetching"
    /\ req[r].written < MaxPaths
    /\ disk' = Written(f, clock, keep)
    /\ req' = [req EXCEPT ![r].written = @ + 1,
                          ![r].lines = Append(@, f),
                          ![r].pipe = @ \o f \o <<"\n">>]
    /\ UNCHANGED <<calc, build, clock, unlinks, unlinkLog, sweepVars, process, hbVars>>

\* A 'data' event of ytdlp.stdout: the chunk is all that has been written
\* since the last one; paths.push(data.toString().trim()).
FetchData(r) ==
    /\ process = "running"
    /\ req[r].pc = "fetching"
    /\ req[r].pipe # <<>>
    /\ req' = [req EXCEPT ![r].paths = Append(@, Trim(req[r].pipe)),
                          ![r].pipe = <<>>]
    /\ UNCHANGED <<calc, build, clock, fsVars, sweepVars, process, hbVars>>

\* The handler with the archive made for a single path too.
AfterDownload_ZipsOne(r, q) ==
    IF Len(q.paths) >= 1
    THEN [q EXCEPT !.pc = "zipping", !.zipSpawned = @ + 1]
    ELSE Respond(q, 500)

\* The handler after `filepaths = await download(...)` has resolved.
AfterDownload(r, q) ==
    IF Len(q.paths) > 1
    THEN [q EXCEPT !.pc = "zipping", !.zipSpawned = @ + 1]
    ELSE IF Len(q.paths) = 1
    THEN [q EXCEPT !.pc = "sending", !.deliverable = q.paths[1],
                   !.cbPaths = q.paths]
    ELSE \* res.download(undefined, ...) throws: express answers 500
         Respond(q, 500)

\* The 'close' event of yt-dlp, after its output has been read: a
\* non-zero code rejects, zero resolves with paths.
FetchClose(r, code) ==
    /\ process = "running"
    /\ req[r].pc = "fetching"
    /\ req[r].pipe = <<>>
    /\ req' = [req EXCEPT ![r] =
          LET q == [@ EXCEPT !.fetchExit = code]
          IN  IF code # 0 THEN Respond(q, DownloadFailedStatus(build))
              ELSE AfterDownload(r, q)]
    /\ UNCHANGED <<calc, build, clock, fsVars, sweepVars, process, hbVars>>

\* The 'close' event of zip.  Zero: the archive exists and is handed to
\* res.download.  Non-zero: reject(), the handler's promise rejects.
ZipClose(r, code, status) ==
    /\ process = "running"
    /\ req[r].pc = "zipping"
    /\ status \in RejectedUndefinedStatus
    /\ LET q == [req[r] EXCEPT !.zipExit = code]
           outputPath == ArchivePath(r)
       IN  IF code # 0
           THEN /\ req' = [req EXCEPT ![r] = Respond(q, status)]
                /\ UNCHANGED disk
           ELSE /\ req' = [req EXCEPT ![r] =
                      [q EXCEPT !.pc = "sending", !.archive = outputPath,
                                !.deliverable = outputPath,
                                !.cbPaths = CallbackPaths(build, outputPath, q.paths)]]
                /\ disk' = Written(outputPath, clock, FALSE)
    /\ UNCHANGED <<calc, build, clock, unlinks, unlinkLog, sweepVars, process, hbVars>>

\* res.download has finished, completely (ok) or with an error (the file
\* is missing: nothing is answered; the transfer is cut: the 200 is out),
\* and calls the callback: deleteFiles(paths).
Transmit(r, ok) ==
    /\ process = "running"
    /\ req[r].pc = "sending"
    /\ ok => OnDisk(req[r].deliverable)
    /\ req' = [req EXCEPT ![r].pc = "done",
                          ![r].status = IF OnDisk(req[r].deliverable) THEN 200 ELSE 0,
                          ![r].sent = ok,
                          ![r].transmitted = IF ok THEN "ok" ELSE "error",
                          ![r].deleted = Range(req[r].cbPaths)]
    /\ unlinks' = unlinks \cup deleteFiles(req[r].cbPaths, r)
    /\ UNCHANGED <<calc, build, clock, disk, unlinkLog, sweepVars, process, hbVars>>

RequestNext ==
    \/ \E r \in Reqs, nUrls \in 0..MaxUrls, fmt \in FormatInputs,
          valid \in BOOLEAN, threw \in BOOLEAN :
            Request(r, nUrls, fmt, valid, threw)
    \/ \E r \in Reqs, ok \in BOOLEAN, projected \in Projections,
          threw \in BOOLEAN :
            EstimateDone(r, ok, projected, threw)
    \/ \E r \in Reqs, f \in Files, keep \in BOOLEAN : FetchWrite(r, f, keep)
    \/ \E r \in Reqs : FetchData(r)
    \/ \E r \in Reqs, code \in {0, 1} : FetchClose(r, code)
    \/ \E r \in Reqs, code \in {0, 1}, status \in RejectedUndefinedStatus :
            ZipClose(r, code, status)
    \/ \E r \in Reqs, ok \in BOOLEAN : Transmit(r, ok)
    \/ \E u \in unlinks, ok \in BOOLEAN : UnlinkDone(u, ok)

(* ----------------------------------------------------------------- sweep *)

\* A call deleteOldFiles(): now = Date.now(), suspended in getFiles().
NewPass(t) ==
    [pc |-> "readdir", now |-> t, waiting |-> {}, stats |-> {}, gone |-> {}]

\* A sequence holding the elements of the finite set S, in some order.
RECURSIVE SeqOf(_)
SeqOf(S) ==
    IF S = {} THEN <<>>
    ELSE LET x == CHOOSE y \in S : TRUE IN <<x>> \o SeqOf(S \ {x})

\* stats.filter(file => (now - file.stats.birthtimeMs) > milliseconds)
\*      .map(file => file.path)
oldFiles(stats, now) ==
    SeqOf({f.path : f \in {g \in stats : (now - g.birthtimeMs) > milliseconds}})

\* The tail of deleteOldFiles, once every stat has resolved: filter,
\* deleteFiles(oldFiles), setTimeout(deleteOldFiles, 5000).
SweepFinish(i, stats) ==
    LET old == oldFiles(stats, sweeps[i].now)
    IN  /\ unlinks' = unlinks \cup deleteFiles(old, "sweep")
        /\ sweepTimers' = Append(sweepTimers, [delay |-> sweepDelayMilliseconds])
        /\ sweeps' = RemoveAt(sweeps, i)
        /\ sweepDone' = [outcome |-> "rescheduled", now |-> sweeps[i].now,
                         listed |-> {f.path : f \in stats},
                         stats |-> stats, oldFiles |-> old,
                         failed |-> NoPath, enoent |-> FALSE,
                         gone |-> sweeps[i].gone]

\* readdir succeeds: getStatsForFiles starts one stat per entry.
SweepReaddirOk(i) ==
    /\ process = "running"
    /\ sweeps[i].pc = "readdir"
    /\ LET files == {e.path : e \in disk}
       IN  IF files = {}
           THEN SweepFinish(i, {})
           ELSE /\ sweeps' = [sweeps EXCEPT ![i].pc = "stat", ![i].waiting = files]
                /\ UNCHANGED <<unlinks, sweepTimers, sweepDone>>
    /\ UNCHANGED <<calc, build, clock, disk, unlinkLog, req, process, hbVars>>

\* readdir fails: getFiles rejects, and so does deleteOldFiles, before its
\* setTimeout.
SweepReaddirFail(i) ==
    /\ process = "running"
    /\ sweeps[i].pc = "readdir"
    /\ sweeps' = RemoveAt(sweeps, i)
    /\ sweepDone' = [outcome |-> "readdirFailed", now |-> sweeps[i].now,
                     listed |-> {}, stats |-> {}, oldFiles |-> <<>>,
                     failed |-> NoPath, enoent |-> FALSE, gone |-> {}]
    /\ process' \in UnhandledRejection
    /\ UNCHANGED <<calc, build, clock, fsVars, req, sweepTimers, hbVars>>

\* The stat of one listed entry resolves; with the last one, Promise.all
\* resolves and deleteOldFiles runs to its end.
SweepStatOk(i, p) ==
    /\ process = "running"
    /\ sweeps[i].pc = "stat"
    /\ p \in sweeps[i].waiting
    /\ OnDisk(p)
    /\ LET stats == sweeps[i].stats \cup
                        {[path |-> p, birthtimeMs |-> BirthtimeMs(p)]}
           waiting == sweeps[i].waiting \ {p}
       IN  IF waiting = {}
           THEN SweepFinish(i, stats)
           ELSE /\ sweeps' = [sweeps EXCEPT ![i].stats = stats,
                                            ![i].waiting = waiting]
                /\ UNCHANGED <<unlinks, sweepTimers, sweepDone>>
    /\ UNCHANGED <<calc, build, clock, disk, unlinkLog, req, process, hbVars>>

\* The stat of one listed entry fails (the entry is gone, or an I/O
\* error): getFileStats rejects, Promise.all rejects, and so does
\* deleteOldFiles, before its setTimeout.
SweepStatFail(i, p) ==
    /\ process = "running"
    /\ sweeps[i].pc = "stat"
    /\ p \in sweeps[i].waiting
    /\ sweeps' = RemoveAt(sweeps, i)
    /\ sweepDone' = [outcome |-> "statFailed", now |-> sweeps[i].now,
                     listed |-> sweeps[i].waiting \cup
                                    {f.path : f \in sweeps[i].stats},
                     stats |-> sweeps[i].stats, oldFiles |-> <<>>,
                     failed |-> p, enoent |-> ~OnDisk(p),
                     gone |-> sweeps[i].gone]
    /\ process' \in UnhandledRejection
    /\ UNCHANGED <<calc, build, clock, fsVars, req, sweepTimers, hbVars>>

\* A timer set by deleteOldFiles fires: deleteOldFiles().
SweepTimerFire(j) ==
    /\ process = "running"
    /\ sweeps' = Append(sweeps, NewPass(clock))
    /\ sweepTimers' = RemoveAt(sweepTimers, j)
    /\ UNCHANGED <<calc, build, clock, fsVars, req, sweepDone, process, hbVars>>

SweepNext ==
    \/ \E i \in DOMAIN sweeps : SweepReaddirOk(i)
    \/ \E i \in DOMAIN sweeps : SweepReaddirFail(i)
    \/ \E i \in DOMAIN sweeps : \E p \in sweeps[i].waiting : SweepStatOk(i, p)
    \/ \E i \in DOMAIN sweeps : \E p \in sweeps[i].waiting : SweepStatFail(i, p)
    \/ \E j \in DOMAIN sweepTimers : SweepTimerFire(j)
    \/ \E u \in unlinks, ok \in BOOLEAN : UnlinkDone(u, ok)
    \/ Tick

(* ------------------------------------------------------------- heartbeat *)

\* calculateBackoff without the upper clamp.
calculateBackoff_NoMax(failCount, min, max) ==
    Max(min, (2 ^ failCount - 1) * 500)

\* calculateBackoff with the -1 left out: 2 ** failCount * 500.
calculateBackoff_NoMinusOne(failCount, min, max) ==
    Max(min, Min(max, (2 ^ failCount) * 500))

\* Math.max(min, Math.min(max, (2 ** failCount - 1) * 500))
calculateBackoff(failCount, min, max) ==
    Max(min, Min(max, (2 ^ failCount - 1) * 500))

\* A call updateIP(previousIP, min, max, failCount), suspended in getIP().
NewCycle(previousIP, failCount) ==
    [pc |-> "getIP", previousIP |-> previousIP, failCount |-> failCount,
     newIP |-> null]

\* scheduleUpdate with the newly probed address kept on a failure.
scheduleUpdate_KeepsNewIP(c, isFailure) ==
    LET newFailCount == IF isFailure THEN c.failCount + 1 ELSE 0
    IN  [ip |-> c.newIP, failCount |-> newFailCount,
         delayMilliseconds |->
             calculateBackoff(newFailCount, minDelayMilliseconds,
                              maxDelayMilliseconds)]

\* scheduleUpdate with the remembered address dropped on a failure.
scheduleUpdate_ForgetsIP(c, isFailure) ==
    LET ip == IF isFailure THEN null ELSE c.newIP
        newFailCount == IF isFailure THEN c.failCount + 1 ELSE 0
    IN  [ip |-> ip, failCount |-> newFailCount,
         delayMilliseconds |->
             calculateBackoff(newFailCount, minDelayMilliseconds,
                              maxDelayMilliseconds)]

\* scheduleUpdate with the two arms of the count swapped:
\* isFailure ? 0 : failCount + 1.
scheduleUpdate_SwappedCount(c, isFailure) ==
    LET ip == IF isFailure THEN c.previousIP ELSE c.newIP
        newFailCount == IF isFailure THEN 0 ELSE c.failCount + 1
    IN  [ip |-> ip, failCount |-> newFailCount,
         delayMilliseconds |->
             calculateBackoff(newFailCount, minDelayMilliseconds,
                              maxDelayMilliseconds)]

\* scheduleUpdate(isFailure) of the cycle c: the timer it sets.
scheduleUpdate(c, isFailure) ==
    LET ip == IF isFailure THEN c.previousIP ELSE c.newIP
        newFailCount == IF isFailure THEN c.failCount + 1 ELSE 0
    IN  [ip |-> ip, failCount |-> newFailCount,
         delayMilliseconds |->
             calculateBackoff(newFailCount, minDelayMilliseconds,
                              maxDelayMilliseconds)]

\* What a finished cycle c is remembered as in hbDone, with the number of
\* cycles in a row, this one included, whose updateDdns rejected (streak)
\* and the address of the last updateDdns that resolved (published).
CycleLog(c, outcome) ==
    [outcome |-> outcome, previousIP |-> c.previousIP,
     failCount |-> c.failCount, newIP |-> c.newIP,
     streak |-> IF outcome = "publishFailed" THEN hbDone.streak + 1 ELSE 0,
     published |-> IF outcome = "published" THEN c.newIP
                   ELSE hbDone.published]

\* HbProbeOk with the `return` after scheduleUpdate() left out: a cycle
\* with an unchanged address sets its timer and goes on to updateDdns.
HbProbeOk_NoReturn(i, ip) ==
    /\ process = "running"
    /\ hbCycles[i].pc = "getIP"
    /\ LET c == [hbCycles[i] EXCEPT !.newIP = ip]
       IN  /\ hbCycles' = [hbCycles EXCEPT ![i] = [c EXCEPT !.pc = "updateDdns"]]
           /\ hbTimers' = IF ip = c.previousIP
                          THEN Append(hbTimers, scheduleUpdate(c, FALSE))
                          ELSE hbTimers
           /\ UNCHANGED hbDone
    /\ UNCHANGED <<calc, build, clock, fsVars, req, sweepVars, process>>

\* getIP() resolves with ip.  An unchanged address reschedules at once
\* (scheduleUpdate() with isFailure = false); a changed one goes on to
\* updateDdns(newIP).
HbProbeOk(i, ip) ==
    /\ process = "running"
    /\ hbCycles[i].pc = "getIP"
    /\ LET c == [hbCycles[i] EXCEPT !.newIP = ip]
       IN  IF ip = c.previousIP
           THEN /\ hbTimers' = Append(hbTimers, scheduleUpdate(c, FALSE))
                /\ hbCycles' = RemoveAt(hbCycles, i)
                /\ hbDone' = CycleLog(c, "unchanged")
           ELSE /\ hbCycles' = [hbCycles EXCEPT ![i] = [c EXCEPT !.pc = "updateDdns"]]
                /\ UNCHANGED <<hbTimers, hbDone>>
    /\ UNCHANGED <<calc, build, clock, fsVars, req, sweepVars, process>>

\* getIP() rejects (fetch throws): the await at the top of updateIP is
\* outside the try, so updateIP rejects and nothing is scheduled.
HbProbeFail(i) ==
    /\ process = "running"
    /\ hbCycles[i].pc = "getIP"
    /\ hbCycles' = RemoveAt(hbCycles, i)
    /\ hbDone' = CycleLog(hbCycles[i], "probeThrew")
    /\ process' \in UnhandledRejection
    /\ UNCHANGED <<calc, build, clock, fsVars, req, sweepVars, hbTimers>>

\* updateDdns(newIP) resolves: scheduleUpdate().
HbPublishOk(i) ==
    /\ process = "running"
    /\ hbCycles[i].pc = "updateDdns"
    /\ hbTimers' = Append(hbTimers, scheduleUpdate(hbCycles[i], FALSE))
    /\ hbCycles' = RemoveAt(hbCycles, i)
    /\ hbDone' = CycleLog(hbCycles[i], "published")
    /\ UNCHANGED <<calc, build, clock, fsVars, req, sweepVars, process>>

\* updateDdns(newIP) rejects (ErrCount, or fetch/parse throws):
\* scheduleUpdate(true).
HbPublishFail(i) ==
    /\ process = "running"
    /\ hbCycles[i].pc = "updateDdns"
    /\ hbCycles[i].failCount < MaxFail
    /\ hbTimers' = Append(hbTimers, scheduleUpdate(hbCycles[i], TRUE))
    /\ hbCycles' = RemoveAt(hbCycles, i)
    /\ hbDone' = CycleLog(hbCycles[i], "publishFailed")
    /\ UNCHANGED <<calc, build, clock, fsVars, req, sweepVars, process>>

\* A timer set by scheduleUpdate fires:
\* updateIP(ip, minDelayMilliseconds, maxDelayMilliseconds, newFailCount).
HbTimerFire(j) ==
    /\ process = "running"
    /\ hbCycles' = Append(hbCycles, NewCycle(hbTimers[j].ip, hbTimers[j].failCount))
    /\ hbTimers' = RemoveAt(hbTimers, j)
    /\ UNCHANGED <<calc, build, clock, fsVars, req, sweepVars, process, hbDone>>

HeartbeatNext ==
    \/ \E i \in DOMAIN hbCycles, ip \in IPs : HbProbeOk(i, ip)
    \/ \E i \in DOMAIN hbCycles : HbProbeFail(i)
    \/ \E i \in DOMAIN hbCycles : HbPublishOk(i)
    \/ \E i \in DOMAIN hbCycles : HbPublishFail(i)
    \/ \E j \in DOMAIN hbTimers : HbTimerFire(j)

\* The bounds calculateBackoff is applied with: pairs with
\* 0 <= min <= max, the defaults of updateIP among them.
BackoffBounds ==
    {b \in {0, 500, 1500, minDelayMilliseconds, maxDelayMilliseconds}
            \X {0, 500, 1500, minDelayMilliseconds, maxDelayMilliseconds} :
        b[1] <= b[2]}

\* No call of calculateBackoff has been made yet.
NoCall == [failCount |-> 0, min |-> 0, max |-> 0, delay |-> -1, before |-> -1]

\* calculateBackoff(failCount, min, max) is called; `before` keeps what
\* the call with the same bounds and failCount - 1 returned just before.
BackoffCall(failCount, min, max) ==
    /\ failCount <= MaxBackoffCount
    /\ calc' = [failCount |-> failCount, min |-> min, max |-> max,
                delay |-> calculateBackoff(failCount, min, max),
                before |-> IF /\ calc.delay # -1
                              /\ calc.min = min /\ calc.max = max
                              /\ calc.failCount + 1 = failCount
                           THEN calc.delay ELSE -1]
    /\ UNCHANGED <<build, clock, fsVars, req, sweepVars, process, hbVars>>

BackoffNext ==
    \E failCount \in 0..MaxBackoffCount, b \in BackoffBounds :
        BackoffCall(failCount, b[1], b[2])

(* ------------------------------------------------------------------ Init *)

\* The state after the module is loaded: updateIP() has been called with
\* its defaults.
Init ==
    /\ calc = NoCall
    /\ build \in Builds
    /\ clock = 0
    /\ disk \in SUBSET {[path |-> f, birthtimeMs |-> 0] : f \in Files}
    /\ unlinks = {}
    /\ unlinkLog = {}
    /\ req = [r \in Reqs |-> IdleReq]
    /\ sweeps = <<NewPass(0)>>
    /\ sweepTimers = <<>>
    /\ sweepDone = [outcome |-> "none", now |-> 0, listed |-> {},
                    stats |-> {}, oldFiles |-> <<>>,
                    failed |-> NoPath, enoent |-> FALSE, gone |-> {}]
    /\ process = "running"
    /\ hbCycles = <<NewCycle(null, 0)>>
    /\ hbTimers = <<>>
    /\ hbDone = [outcome |-> "none", previousIP |-> null, failCount |-> 0,
                 newIP |-> null, streak |-> 0, published |-> null]

SpecBackoff == Init /\ [][BackoffNext]_vars

SpecHeartbeat == Init /\ [][HeartbeatNext]_vars

SpecSweep == Init /\ [][SweepNext]_vars

SpecRequest == Init /\ [][RequestNext]_vars

\* The two background loops started at lines 529-530, without requests;
\* their code is the same in every build.
InitLoops ==
    /\ Init
    /\ build = "multi"

LoopsNext ==
    \/ SweepNext
    \/ HeartbeatNext

SpecLoops == InitLoops /\ [][LoopsNext]_vars

\* Requests and the sweep on the shared output directory: a request for
\* one url whose yt-dlp delivers one file, in one chunk, together with the
\* passes of deleteOldFiles.
FilesNext ==
    \/ \E r \in Reqs : Request(r, 1, Absent, TRUE, FALSE)
    \/ \E r \in Reqs, f \in Files, keep \in BOOLEAN :
            req[r].written = 0 /\ FetchWrite(r, f, keep)
    \/ \E r \in Reqs : FetchData(r)
    \/ \E r \in Reqs, code \in {0, 1} : FetchClose(r, code)
    \/ \E r \in Reqs, ok \in BOOLEAN : Transmit(r, ok)
    \/ SweepNext

SpecFiles == InitLoops /\ [][FilesNext]_vars

Next ==
    \/ RequestNext
    \/ SweepNext
    \/ HeartbeatNext

Spec == Init /\ [][Next]_vars

(* ---------------------------------------------------------------- claims *)

\* The paths of the request r: every fetched path and, when one was
\* created, the archive.
PathsOf(r) ==
    Range(req[r].paths) \cup
        (IF req[r].archive # NoPath THEN {req[r].archive} ELSE {})

\* C1, as claimed: after every updateIP cycle, whatever its outcome
\* (probe throws, publish fails, publish succeeds, address unchanged),
\* exactly one next cycle is scheduled.
C1_NextCycleAfterEveryOutcome ==
    (hbDone.outcome # "none" /\ hbCycles = <<>>) => Len(hbTimers) = 1

\* C2, as claimed: after every deleteOldFiles pass, whether it succeeded
\* or failed in part (listing fails, a stat fails, an unlink fails), a
\* next pass is scheduled 5 seconds later.
C2_NextPassAfterEveryOutcome ==
    (sweepDone.outcome # "none" /\ sweeps = <<>>) =>
        /\ Len(sweepTimers) = 1
        /\ sweepTimers[1].delay = 5000

C4_InvalidFormatIs400 ==
    \A r \in Reqs :
        (req[r].urls >= 1 /\ req[r].format \notin {"audio", "video"}) =>
            /\ req[r].fetchSpawned = 0
            /\ req[r].pc = "done" => req[r].status = 400

\* C5, as claimed: when the fetch subprocess of a valid request exits
\* with a non-zero code, the request ends with status 500, no archive
\* subprocess is spawned and no file is sent.
C5_FetchFailureIs500 ==
    \A r \in Reqs :
        req[r].fetchExit > 0 =>
            /\ req[r].status = 500
            /\ req[r].zipSpawned = 0
            /\ ~req[r].sent

\* C6: a request spawns exactly one archive subprocess if its fetch
\* resolved with more than one path, and none if the fetch resolved with
\* zero or one path, failed or has not ended.
C6_ArchiveIffSeveralPaths ==
    \A r \in Reqs :
        /\ req[r].zipSpawned \in {0, 1}
        /\ req[r].zipSpawned = 1 <=>
               (req[r].fetchExit = 0 /\ Len(req[r].paths) > 1)

\* C6's cases: a fetch that resolved with two paths and one archive
\* subprocess; and, in another run, one that resolved with one path and
\* none.
C6_Witness ==
    \E r \in Reqs :
        /\ req[r].fetchExit = 0
        /\ Len(req[r].paths) = 2
        /\ req[r].zipSpawned = 1
        /\ req[r].zipExit = 0

\* C7, as claimed: after the deliverable of a request has finished
\* transmitting (with or without an error), a delete has been issued for
\* every path of the request, the archive included; when every delete
\* succeeded none of these paths is on disk.
C7_AllPathsDeletedAfterTransmit ==
    \A r \in Reqs :
        req[r].transmitted # "no" =>
            /\ PathsOf(r) \subseteq req[r].deleted
            /\ ( /\ \A u \in unlinks : u.by # r
                 /\ \A l \in unlinkLog : l.by # r )
               => \A p \in PathsOf(r) : ~OnDisk(p)

\* C8, as claimed: on every outcome after its fetch succeeded, a failing
\* archive subprocess included, the request itself issues a delete for
\* every path it fetched.
C8_FetchedPathsDeletedOnEveryOutcome ==
    \A r \in Reqs :
        (req[r].fetchExit = 0 /\ req[r].pc = "done") =>
            Range(req[r].paths) \subseteq req[r].deleted

\* What the cycle that finished last handed to the next cycle: the timers
\* it set, and the cycles started from them.
HandedOn ==
    {[ip |-> hbTimers[j].ip, failCount |-> hbTimers[j].failCount] :
        j \in DOMAIN hbTimers}
    \cup {[ip |-> hbCycles[i].previousIP, failCount |-> hbCycles[i].failCount] :
        i \in DOMAIN hbCycles}

\* C9: when the publish of a cycle fails, the address handed to the next
\* cycle is the one the cycle started with, not the newly probed one, and
\* the failure count handed on is the cycle's count plus one.
C9_FailedPublishKeepsAddress ==
    hbDone.outcome = "publishFailed" =>
        /\ HandedOn = {[ip |-> hbDone.previousIP,
                        failCount |-> hbDone.failCount + 1]}
        /\ hbDone.newIP # hbDone.previousIP

\* C9's case: a publish failed after an address had been published.
C9_Witness ==
    /\ hbDone.outcome = "publishFailed"
    /\ hbDone.previousIP # null
    /\ hbDone.failCount >= 1
    /\ Len(hbTimers) = 1

\* C10, as claimed: the failure count goes from a positive value to zero
\* only in a cycle in which a publish was attempted and succeeded.
C10_ResetOnlyOnPublish ==
    \A j \in DOMAIN hbTimers :
        (hbDone.failCount > 0 /\ hbTimers[j].failCount = 0) =>
            hbDone.outcome = "published"

\* C10, amended: the failure count goes from a positive value to zero
\* only in a cycle whose publish succeeded, or whose probed address
\* equals the remembered one so that no publish was attempted; a cycle
\* whose publish failed never resets it.
C10_ResetOnPublishOrUnchanged ==
    \A j \in DOMAIN hbTimers :
        (hbDone.failCount > 0 /\ hbTimers[j].failCount = 0) =>
            \/ hbDone.outcome = "published"
            \/ /\ hbDone.outcome = "unchanged"
               /\ hbDone.newIP = hbDone.previousIP

\* C10's case: a positive count reset by a cycle that published nothing.
C10_Witness ==
    /\ hbDone.outcome = "unchanged"
    /\ hbDone.failCount > 0
    /\ Len(hbTimers) = 1
    /\ hbTimers[1].failCount = 0

\* C11: calculateBackoff(failCount, min, max) with 0 <= min <= max lies
\* in [min, max] and is not smaller than its value at failCount - 1; with
\* min = 5000 and max = 60000 it is 5000 at failCount 0 and 1 and 60000
\* at failCount 10.
C11_BackoffMonotoneAndBounded ==
    calc.delay # -1 =>
        /\ calc.min <= calc.delay /\ calc.delay <= calc.max
        /\ calc.before # -1 => calc.before <= calc.delay
        /\ (calc.min = 5000 /\ calc.max = 60000) =>
               /\ calc.failCount \in {0, 1} => calc.delay = 5000
               /\ calc.failCount = 10 => calc.delay = 60000

\* C11's case: with the default bounds the delay has grown from one
\* failCount to the next, strictly between the two bounds.
C11_Witness ==
    /\ calc.min = 5000 /\ calc.max = 60000
    /\ calc.before # -1
    /\ calc.before < calc.delay
    /\ calc.delay < calc.max

\* C12, as claimed: a sweep pass issues a delete for a directory entry
\* if and only if the time at the start of the pass minus the entry's
\* creation time is greater than 86400000 ms.
C12_DeleteIffOlderThanThreshold ==
    sweepDone.outcome # "none" =>
        \A e \in disk :
            e.path \in sweepDone.listed =>
                (e.path \in Range(sweepDone.oldFiles)
                    <=> sweepDone.now - e.birthtimeMs > 86400000)

\* The part of C12 that holds: a pass whose stats have all resolved
\* issues a delete for exactly the entries older than the threshold, and
\* every delete of the sweep in flight is of an entry that was older than
\* the threshold when its pass started.
C12_CompletedPassDeletesIffOlder ==
    /\ sweepDone.outcome = "rescheduled" =>
           \A f \in sweepDone.stats :
               f.path \in Range(sweepDone.oldFiles)
                   <=> sweepDone.now - f.birthtimeMs > 86400000
    /\ \A u \in unlinks :
           (u.by = "sweep" /\ OnDisk(u.path)) =>
               clock - BirthtimeMs(u.path) > 86400000

\* C14, as claimed: each sweep pass fully completes before the next is
\* scheduled: while the timer for the next pass is pending or the next
\* pass runs, no delete issued by the sweep is still unfinished.
C14_TimerSetAfterDeletesFinished ==
    sweepDone.outcome = "rescheduled" =>
        \A k \in DOMAIN sweepDone.oldFiles :
            [path |-> sweepDone.oldFiles[k], by |-> "sweep", k |-> k]
                \notin unlinks

\* C17: deleteFiles attempts to remove every path it is given: when a pass
\* sets the timer for the next pass, an unlink has been issued for every
\* path of its oldFiles, and afterwards each of these unlinks is in flight,
\* has removed the file, or has failed and been logged.  A failing unlink
\* is only logged: it leaves the process running, the other unlinks in
\* flight, and the passes and timers of the sweep as they were.
C17_Attempted ==
    sweepDone.outcome = "rescheduled" =>
        \A k \in DOMAIN sweepDone.oldFiles :
            \/ [path |-> sweepDone.oldFiles[k], by |-> "sweep", k |-> k] \in unlinks
            \/ ~OnDisk(sweepDone.oldFiles[k])
            \/ [path |-> sweepDone.oldFiles[k], by |-> "sweep"] \in unlinkLog

C17_IssuedWithTimer ==
    Len(sweepTimers') > Len(sweepTimers) =>
        \A k \in DOMAIN sweepDone'.oldFiles :
            [path |-> sweepDone'.oldFiles[k], by |-> "sweep", k |-> k] \in unlinks'

C17_FailureOnlyLogged ==
    unlinkLog' # unlinkLog =>
        /\ process' = "running"
        /\ \E u \in unlinks :
               /\ unlinks' = unlinks \ {u}
               /\ unlinkLog' = unlinkLog \cup {[path |-> u.path, by |-> u.by]}
        /\ disk' = disk
        /\ sweeps' = sweeps /\ sweepTimers' = sweepTimers

C17_DeleteFilesBestEffort ==
    /\ []C17_Attempted
    /\ [][C17_IssuedWithTimer /\ C17_FailureOnlyLogged]_vars

\* A pass deleted two entries; one unlink failed and was logged, the other
\* removed its file, and the next pass is running.
C17_Witness ==
    /\ sweepDone.outcome = "rescheduled"
    /\ Len(sweepDone.oldFiles) = 2
    /\ \E j, k \in DOMAIN sweepDone.oldFiles :
           /\ [path |-> sweepDone.oldFiles[j], by |-> "sweep"] \in unlinkLog
           /\ OnDisk(sweepDone.oldFiles[j])
           /\ ~OnDisk(sweepDone.oldFiles[k])
    /\ unlinks = {}
    /\ sweeps # <<>>
    /\ process = "running"

\* C15: after k >= 1 cycles in a row whose publish failed, the first of
\* them started with failure count 0, the failure count handed on is k and
\* the delay of the next cycle is (2^k - 1) * 500 ms clamped to
\* [5000, 60000]; after a successful publish the failure count handed on
\* is 0, the address handed on is the newly probed one, and the delay is
\* the minimum, 5000 ms.
C15_BackoffAfterFailuresAndSuccess ==
    /\ hbDone.outcome = "publishFailed" =>
           LET k == hbDone.streak
               raw == (2 ^ k - 1) * 500
           IN  /\ k >= 1
               /\ \A j \in DOMAIN hbTimers :
                      /\ hbTimers[j].failCount = k
                      /\ hbTimers[j].delayMilliseconds =
                             IF raw < 5000 THEN 5000
                             ELSE IF raw > 60000 THEN 60000 ELSE raw
               /\ \A i \in DOMAIN hbCycles : hbCycles[i].failCount = k
    /\ hbDone.outcome = "published" =>
           /\ \A j \in DOMAIN hbTimers :
                  hbTimers[j] = [ip |-> hbDone.newIP, failCount |-> 0,
                                 delayMilliseconds |-> 5000]
           /\ \A i \in DOMAIN hbCycles :
                  /\ hbCycles[i].failCount = 0
                  /\ hbCycles[i].previousIP = hbDone.newIP

\* C15's cases: six failed publishes in a row with the timer of the next
\* cycle pending at 31500 ms, between the two clamps.
C15_Witness ==
    /\ hbDone.outcome = "publishFailed"
    /\ hbDone.streak = 6
    /\ Len(hbTimers) = 1
    /\ hbTimers[1].delayMilliseconds = 31500

\* C20: the address a heartbeat cycle starts with (and the one a pending
\* timer will start the next cycle with) is null if no publish has ever
\* succeeded and otherwise the address of the most recent successful
\* publish; a publish is attempted only when the probed address differs
\* from it.
C20_RememberedIsLastPublished ==
    /\ \A i \in DOMAIN hbCycles :
           /\ hbCycles[i].previousIP = hbDone.published
           /\ hbCycles[i].pc = "updateDdns" =>
                  hbCycles[i].newIP # hbCycles[i].previousIP
    /\ \A j \in DOMAIN hbTimers : hbTimers[j].ip = hbDone.published
    /\ hbDone.outcome \in {"published", "publishFailed"} =>
           hbDone.newIP # hbDone.previousIP

\* C20's case: after ip1 was published and a publish of ip2 failed, a
\* cycle that started with ip1 attempts a publish of ip2 again.
C20_Witness ==
    /\ hbDone.published # null
    /\ hbDone.outcome = "publishFailed"
    /\ \E i \in DOMAIN hbCycles :
           /\ hbCycles[i].pc = "updateDdns"
           /\ hbCycles[i].previousIP = hbDone.published
           /\ hbCycles[i].newIP # hbDone.published

\* C18: for each background loop (sweep, heartbeat), at most one cycle of
\* the loop is running or pending on a timer: cycles of one loop never
\* overlap and a loop never has more than one timer pending.
C18_OneCyclePerLoop ==
    /\ Len(sweeps) + Len(sweepTimers) <= 1
    /\ Len(hbCycles) + Len(hbTimers) <= 1

\* C18's case: both loops have finished a cycle and started the next one
\* from its timer, the sweep with a delete still in flight.
C18_Witness ==
    /\ sweepDone.outcome = "rescheduled"
    /\ hbDone.outcome \in {"unchanged", "published", "publishFailed"}
    /\ Len(sweeps) = 1 /\ sweepTimers = <<>>
    /\ Len(hbCycles) = 1 /\ hbTimers = <<>>
    /\ \E u \in unlinks : u.by = "sweep"

\* C16, as claimed: for a fetch subprocess that exits with code 0, the
\* resolved path list has exactly one entry per line the subprocess wrote
\* to standard output, trimmed, in arrival order, however the output is
\* split into data chunks.
C16_OnePathPerLine ==
    \A r \in Reqs :
        req[r].fetchExit = 0 => req[r].paths = req[r].lines

\* The request r is in flight: its fetch or archive subprocess runs, or
\* its response is not yet fully transmitted.
InFlight(r) == req[r].pc \in {"fetching", "zipping", "sending"}

\* C13, as claimed: the sweep never deletes a file that belongs to an
\* in-flight request (a file its fetch subprocess has written, or its
\* archive), under any interleaving of requests and sweep passes.
C13_SweepSparesInFlightFiles ==
    [][\A u \in unlinks :
          (/\ u.by = "sweep"
           /\ unlinks' = unlinks \ {u}
           /\ OnDisk(u.path)
           /\ \A e \in disk' : e.path # u.path)
              => \A r \in Reqs :
                     InFlight(r) =>
                         u.path \notin Range(req[r].lines) \cup PathsOf(r)]_vars

\* C19, as claimed: a request's delete that removes an entry a running
\* pass has listed and not yet got the stat of never prevents that pass
\* from scheduling the next pass.
C19_RequestDeleteNeverStopsSweep ==
    (/\ sweepDone.outcome # "none"
     /\ sweepDone.gone # {}
     /\ sweepDone.failed \in sweepDone.gone
     /\ sweeps = <<>>)
        => Len(sweepTimers) = 1

====
